---- MODULE Spec2Model ----
(***************************************************************************)
(* Model of fluxio_parser: the Pass state (states/pass_.py) with its graph *)
(* shaping and serialization, and the resource decorator registry          *)
(* (resource_decorators.py).                                               *)
(*                                                                         *)
(* The state graph is a networkx DiGraph: pass_.py:53 indexes              *)
(* state_graph.edges with a (u, v) pair, so there is exactly one attribute *)
(* dict per ordered pair of nodes.                                         *)
(***************************************************************************)
EXTENDS Integers, FiniteSets, Sequences, TLC

\* ---------------------------------------------------------------- bounds
MaxNodes == 3
MaxEdges == 3
WideNodes == 4
WideEdges == 4
MaxDecorators == 2
MaxLine == 5

Nodes == 1..WideNodes

\* Edge attrs are dicts, modelled as sets of <<key, value>> pairs with at
\* most one pair per key.
NoAttrs == {}
AttrChoices == {NoAttrs, {<<"cond", 1>>}, {<<"cond", 2>>}}

\* ------------------------------------------------------------- AST nodes
\* Value expressions of the source language (the right-hand side of an
\* assignment, or the expression of an augmented assignment / statement).
NoExpr == [node |-> "None", id |-> "", args |-> <<>>]
Lit(src) == [node |-> "Literal", id |-> src, args |-> <<>>]
NameExpr(id) == [node |-> "Name", id |-> id, args |-> <<>>]
CallExpr(fn, args) == [node |-> "Call", id |-> fn, args |-> args]

\* Statements. targets is the subscript chain of data[...]...[...] = value
PassStmt == [kind |-> "Pass", targets |-> <<>>, value |-> NoExpr]
AssignStmt(keys, v) == [kind |-> "Assign", targets |-> keys, value |-> v]
AugAssignStmt(keys, v) == [kind |-> "AugAssign", targets |-> keys, value |-> v]
ExprStmt(v) == [kind |-> "Expr", targets |-> <<>>, value |-> v]

AssignX == AssignStmt(<<"x">>, Lit("1"))
AssignY == AssignStmt(<<"y">>, Lit("{'a': 2}"))
GraphStmts == {PassStmt, AssignX}

VARIABLES
    state_graph,   \* [nodes, adj]: the DiGraph; adj maps <<u, v>> to attrs
    ast_node,      \* node -> statement the state was created from
    graph0,        \* the graph as built, before shaping
    phase,         \* "shape", "reshape", "serialize", "todict", "decorate"
    shaped,        \* nodes shape() was called on in the current pass
    raised,        \* "none" or the exception that aborted the run
    result,        \* node -> what to_dict() returned or raised
    decorators,    \* decorator applications on the function, in order
    decIdx,        \* number of decorator applications processed
    effects,       \* accepted decorator effects, in order
    decRaised,     \* "none" or the exception that ended the validation
    status_node,   \* the keyword value handed to get_subscribe_status
    status_result  \* what get_subscribe_status returned or raised

graphVars == <<state_graph, ast_node, graph0, phase, shaped, raised, result>>
decVars == <<decorators, decIdx, effects, decRaised>>
statusVars == <<status_node, status_result>>

vars == <<graphVars, decVars, statusVars>>

\* ------------------------------------------------------ networkx DiGraph
HasEdge(g, u, v) == <<u, v>> \in DOMAIN g.adj

\* dict.update: keys of new replace keys of old
UpdateAttrs(old, new) ==
    {kv \in old : ~ \E nv \in new : nv[1] = kv[1]} \cup new

Successors(g, n) == {v \in g.nodes : HasEdge(g, n, v)}

in_edges(g, n) == {e \in DOMAIN g.adj : e[2] = n}

out_edges(g, n) == {e \in DOMAIN g.adj : e[1] = n}

\* DiGraph.add_edge(u, v, **attrs): creates the edge, or updates the attr
\* dict of the edge that is already there.
add_edge(g, u, v, attrs) ==
    [nodes |-> g.nodes \cup {u, v},
     adj |-> [e \in DOMAIN g.adj \cup {<<u, v>>} |->
                IF e = <<u, v>>
                THEN UpdateAttrs(IF e \in DOMAIN g.adj THEN g.adj[e] ELSE NoAttrs,
                                 attrs)
                ELSE g.adj[e]]]

remove_edges(g, es) ==
    [nodes |-> g.nodes,
     adj |-> [e \in DOMAIN g.adj \ es |-> g.adj[e]]]

\* A remove_node that forgets the node.
remove_node_Keep(g, n) == g

\* DiGraph.remove_node(n): removes n and every edge incident to n
remove_node(g, n) ==
    [nodes |-> g.nodes \ {n},
     adj |-> [e \in {d \in DOMAIN g.adj : d[1] # n /\ d[2] # n} |-> g.adj[e]]]

\* ------------------------------------------------------------ State base
\* State.edges: the outgoing edges of the state
edges(g, n) == out_edges(g, n)

\* ------------------------------------------------------- PassState.shape
\* The early return of shape() without the edge count.
ShapeReturnsEarly_NoEdgeCheck(g, ast, p) == ast[p].kind # "Pass"

\* An early return that also skips a no-op without upstream states.
ShapeReturnsEarly_NoUpstream(g, ast, p) ==
    \/ ast[p].kind # "Pass"
    \/ Cardinality(edges(g, p)) = 0
    \/ in_edges(g, p) = {}

\* pass_.py:46  not isinstance(self.ast_node, ast.Pass) or len(self.edges) == 0
ShapeReturnsEarly(g, ast, p) ==
    ast[p].kind # "Pass" \/ Cardinality(edges(g, p)) = 0

\* The double loop of pass_.py:51-56.  Every (in-edge, successor) pair is
\* visited once; the attrs read at line 53 are those of the in-edge, and no
\* add_edge of the loop changes the attrs of an in-edge of p (add_edge(m, p,
\* attrs of (m, p)) leaves them as they are), so the visiting order does not
\* matter and the loop is the fold below.
RECURSIVE AddAll(_, _, _)
AddAll(g, p, pairs) ==
    IF pairs = {} THEN g
    ELSE LET pr == CHOOSE x \in pairs : TRUE
             edge == pr[1]
             next_state == pr[2]
         IN AddAll(add_edge(g, edge[1], next_state, g.adj[edge]), p,
                   pairs \ {pr})

Rewire(g, p) == AddAll(g, p, in_edges(g, p) \X Successors(g, p))

\* edges_to_remove gets one entry per (successor, in-edge) iteration, so an
\* in-edge is listed once per successor.
TimesListed(g, p, edge) == Cardinality(Successors(g, p))

\* pass_.py:58-59.  remove_edge raises NetworkXError for an edge that is
\* not in the graph (any more).  The list is [in-edges] repeated once per
\* successor, so the first round removes every in-edge and the first entry of
\* a second round raises.
RemoveRaises(g, p) ==
    \E edge \in in_edges(g, p) : TimesListed(g, p, edge) >= 2

\* shape(): the graph it leaves and the exception it raises, if any
shape(g, ast, p) ==
    IF ShapeReturnsEarly(g, ast, p)
    THEN [graph |-> g, raised |-> "none"]
    ELSE LET rewired == Rewire(g, p)
             removed == remove_edges(rewired, in_edges(g, p))
         IN IF RemoveRaises(g, p)
            THEN [graph |-> removed, raised |-> "NetworkXError"]
            ELSE [graph |-> remove_node(removed, p), raised |-> "none"]

\* ------------------------------------------------- PassState._parse_result
\* astor.to_source(node).strip(): the canonical source text of a literal the
\* author wrote (strings in single quotes)
to_source(expr) ==
    CASE expr.node = "Name" -> expr.id
      [] expr.node = "Call" -> "f(...)"
      [] expr.node = "Literal" /\ expr.id = "{\"a\": 2}" -> "{'a': 2}"
      [] expr.node = "Literal" /\ expr.id = "\"s\"" -> "'s'"
      [] OTHER -> expr.id

PyValue(type, repr) == [type |-> type, repr |-> repr]

\* ast.literal_eval(source): the Python value, or type "ValueError" for a
\* source that is not a literal
literal_eval(source) ==
    CASE source = "1" -> PyValue("int", "1")
      [] source = "'s'" -> PyValue("str", "s")
      [] source = "{'a': 2}" -> PyValue("dict", "{'a': 2}")
      [] source = "{}" -> PyValue("dict", "{}")
      [] source = "[1, 2]" -> PyValue("list", "[1, 2]")
      [] source = "(1, 2)" -> PyValue("tuple", "(1, 2)")
      [] source = "{1: 2}" -> PyValue("dict", "{1: 2}")
      [] source = "{1, 2}" -> PyValue("set", "{1, 2}")
      [] source = "b'x'" -> PyValue("bytes", "b'x'")
      [] OTHER -> PyValue("ValueError", source)

\* json.dumps(value) with its defaults: the JSON text, or "TypeError".
\* Tuples are written as arrays and dict keys that are ints as strings.
json_dumps(value) ==
    CASE value.type \in {"set", "bytes"} -> "TypeError"
      [] value.repr = "1" -> "1"
      [] value.repr = "s" -> "\"s\""
      [] value.repr = "{'a': 2}" -> "{\"a\": 2}"
      [] value.repr = "{}" -> "{}"
      [] value.repr = "[1, 2]" -> "[1, 2]"
      [] value.repr = "(1, 2)" -> "[1, 2]"
      [] value.repr = "{1: 2}" -> "{\"1\": 2}"
      [] OTHER -> "TypeError"

\* pass_.py:79-86: any exception of literal_eval or json.dumps becomes
\* UnsupportedOperation
ParseResultRaises(source) ==
    \/ literal_eval(source).type = "ValueError"
    \/ json_dumps(literal_eval(source)) = "TypeError"

\* What a call returned, or the exception it raised
Returned(v) == [status |-> "ok", exc |-> "", value |-> v]
Raised(exc) == [status |-> "raised", exc |-> exc, value |-> 0]
HasRaised(r, exc) == r.status = "raised" /\ r.exc = exc

\* pass_.py:71-76: the source text the result is parsed from, or the
\* exception of evaluating self.ast_node.value.args[0]
ResultSource(stmt) ==
    IF stmt.kind = "Assign" THEN Returned(to_source(stmt.value))
    ELSE IF stmt.kind \in {"AugAssign", "Expr"}
    THEN IF stmt.value.node # "Call" THEN Raised("AttributeError")
         ELSE IF Len(stmt.value.args) = 0 THEN Raised("IndexError")
         ELSE Returned(to_source(stmt.value.args[1]))
    ELSE Returned("{}")

_parse_result(stmt) ==
    LET src == ResultSource(stmt)
    IN IF src.status = "raised" THEN src
       ELSE IF ParseResultRaises(src.value) THEN Raised("UnsupportedOperation")
       ELSE Returned(literal_eval(src.value))

\* -------------------------------------------- PassState._parse_result_path
\* convert_input_data_ref: data["x"] becomes $['x']
convert_input_data_ref(keys) ==
    CASE keys = <<"x">> -> "$['x']"
      [] keys = <<"y">> -> "$['y']"
      [] keys = <<"foo", "bar">> -> "$['foo']['bar']"
      [] keys = <<"Result">> -> "$['Result']"
      [] keys = <<"result">> -> "$['result']"
      [] OTHER -> "$"

\* re.search(INVALID_RESULT_PATH_PATTERN, result_path): the case-insensitive
\* search for a reserved key (Result) in the result path
INVALID_RESULT_PATH_PATTERN(result_path) ==
    result_path \in {"$['Result']", "$['result']"}

_parse_result_path(stmt) ==
    IF stmt.kind = "Assign"
    THEN LET result_path == convert_input_data_ref(stmt.targets)
         IN IF INVALID_RESULT_PATH_PATTERN(result_path)
            THEN Raised("UnsupportedOperation")
            ELSE Returned(result_path)
    ELSE Returned("$")

\* ----------------------------------------------------- PassState.to_dict
NoValue == PyValue("none", "")

Dict(keys, res, path, next) ==
    [keys |-> keys, Type |-> "Pass", Result |-> res, ResultPath |-> path,
     Next |-> next, End |-> "End" \in keys]

\* pass_.py:113  not isinstance(self.ast_node, ast.Pass)
HasResult(stmt) == stmt.kind # "Pass"

\* State._set_end_or_next: End for a state without outgoing edges, else
\* Next naming the successor
EndOrNext(g, n, next) ==
    IF edges(g, n) = {} THEN next = 0 ELSE next \in Successors(g, n)

\* to_dict() with the successor that _set_end_or_next picks (0: none)
to_dict(g, ast, n, next) ==
    LET link == IF next = 0 THEN "End" ELSE "Next"
    IN IF ~ HasResult(ast[n])
       THEN Returned(Dict({"Type", link}, NoValue, "", next))
       ELSE LET res == _parse_result(ast[n])
                path == _parse_result_path(ast[n])
            IN IF res.status = "raised" THEN res
               ELSE IF path.status = "raised" THEN path
               ELSE Returned(Dict({"Type", "Result", "ResultPath", link},
                                  res.value, path.value, next))

\* -------------------------------------------------------------- run state
NoResult == [status |-> "none", exc |-> "", value |-> 0]

\* The parts of the state a run does not use
NoDecorators ==
    /\ decorators = <<>>
    /\ decIdx = 0
    /\ effects = <<>>
    /\ decRaised = "none"

NoStatusCall ==
    /\ status_node = [type |-> "None", s |-> "", lineno |-> 0]
    /\ status_result = [status |-> "none"]

TypeOK ==
    /\ state_graph.nodes \subseteq Nodes
    /\ DOMAIN state_graph.adj \subseteq state_graph.nodes \X state_graph.nodes
    /\ shaped \subseteq Nodes
    /\ phase \in {"shape", "reshape", "serialize"}
    /\ raised \in {"none", "NetworkXError"}
    /\ \A n \in DOMAIN result : result[n].status \in {"none", "ok", "raised"}

\* Graphs as the builder makes them: statements in source order, edges
\* leading forward (the graph is acyclic along its transitions).
ForwardPairs(ns) == {e \in ns \X ns : e[1] < e[2]}

\* [no-op, data["x"] = 1, no-op, data["y"] = {"a": 2}], wired sequentially
ScenarioGraph ==
    [nodes |-> 1..4,
     adj |-> [e \in {<<1, 2>>, <<2, 3>>, <<3, 4>>} |-> NoAttrs]]

ScenarioStmts == <<PassStmt, AssignX, PassStmt, AssignY>>

InitGraphs(maxNodes, maxEdges) ==
    /\ \/ /\ \E n \in 1..maxNodes :
               \E E \in SUBSET ForwardPairs(1..n) :
                  /\ Cardinality(E) <= maxEdges
                  /\ \E a \in [E -> AttrChoices] :
                       state_graph = [nodes |-> 1..n, adj |-> a]
          /\ ast_node \in [state_graph.nodes -> GraphStmts]
       \/ /\ state_graph = ScenarioGraph
          /\ ast_node = ScenarioStmts
    /\ graph0 = state_graph
    /\ phase = "shape"
    /\ shaped = {}
    /\ raised = "none"
    /\ result = [n \in state_graph.nodes |-> NoResult]
    /\ NoDecorators
    /\ NoStatusCall

PassComplete == state_graph.nodes \subseteq shaped

\* The shaping pass calls shape() once on every state of the graph.
Shape(n) ==
    /\ phase \in {"shape", "reshape"}
    /\ raised = "none"
    /\ n \in state_graph.nodes \ shaped
    /\ LET r == shape(state_graph, ast_node, n)
       IN /\ state_graph' = r.graph
          /\ raised' = r.raised
    /\ shaped' = shaped \cup {n}
    /\ UNCHANGED <<ast_node, graph0, phase, result, decVars, statusVars>>

\* A second shaping pass over the states that remain.
Reshape ==
    /\ phase = "shape"
    /\ raised = "none"
    /\ PassComplete
    /\ phase' = "reshape"
    /\ shaped' = {}
    /\ UNCHANGED <<state_graph, ast_node, graph0, raised, result, decVars, statusVars>>

\* The shaped graph is handed to the serializer.
Serialize ==
    /\ phase \in {"shape", "reshape"}
    /\ raised = "none"
    /\ PassComplete
    /\ phase' = "serialize"
    /\ UNCHANGED <<state_graph, ast_node, graph0, shaped, raised, result,
                   decVars, statusVars>>

\* to_dict() of one retained state
ToDict(n) ==
    /\ phase = "serialize"
    /\ n \in state_graph.nodes
    /\ result[n].status = "none"
    /\ \E next \in {0} \cup Nodes :
         /\ EndOrNext(state_graph, n, next)
         /\ result' = [result EXCEPT ![n] = to_dict(state_graph, ast_node, n, next)]
    /\ UNCHANGED <<state_graph, ast_node, graph0, phase, shaped, raised,
                   decVars, statusVars>>

Init == InitGraphs(MaxNodes, MaxEdges)

Next == \/ \E n \in Nodes : Shape(n)
        \/ Reshape
        \/ Serialize
        \/ \E n \in Nodes : ToDict(n)

Spec == Init /\ [][Next]_vars

\* The same run on graphs of one more state and one more edge
InitWide == InitGraphs(WideNodes, WideEdges)

SpecWide == InitWide /\ [][Next]_vars

\* ------------------------------------------------- to_dict on its own
\* Right-hand sides and statements an author can write
ValueExprs ==
    {Lit("1"), Lit("\"s\""), Lit("{\"a\": 2}"), Lit("[1, 2]"), Lit("(1, 2)"),
     Lit("{1: 2}"), Lit("{1, 2}"), Lit("b'x'"),
     NameExpr("foo"), CallExpr("f", <<Lit("1")>>)}

TargetKeys == {<<"x">>, <<"foo", "bar">>, <<"Result">>, <<"result">>}

UpdateCalls ==
    {CallExpr("data.update", <<>>)}
      \cup {CallExpr("data.update", <<v>>) : v \in {Lit("{\"a\": 2}"), Lit("{1, 2}"), NameExpr("foo")}}

ToDictStmts ==
    {AssignStmt(k, v) : k \in TargetKeys, v \in ValueExprs}
      \cup {AugAssignStmt(<<"x">>, v) : v \in {Lit("1"), NameExpr("foo"), CallExpr("f", <<Lit("1")>>)}}
      \cup {ExprStmt(c) : c \in UpdateCalls}
      \cup {PassStmt}

\* One state, alone or with a successor, handed to the serializer
InitToDict ==
    /\ \E E \in SUBSET {<<1, 2>>} :
         state_graph = [nodes |-> 1..2, adj |-> [e \in E |-> NoAttrs]]
    /\ \E s \in ToDictStmts, t \in {PassStmt, AssignX} : ast_node = <<s, t>>
    /\ graph0 = state_graph
    /\ phase = "serialize"
    /\ shaped = {}
    /\ raised = "none"
    /\ result = [n \in state_graph.nodes |-> NoResult]
    /\ NoDecorators
    /\ NoStatusCall

NextToDict == \E n \in Nodes : ToDict(n)

SpecToDict == InitToDict /\ [][NextToDict]_vars

\* ===================================================== resource decorators
\* Keyword values of a decorator call, with the line they stand on
StrNode(s, lineno) == [type |-> "Str", s |-> s, lineno |-> lineno]
NameNode(id, lineno) == [type |-> "Name", s |-> id, lineno |-> lineno]
DictNode(lineno) == [type |-> "Dict", s |-> "{}", lineno |-> lineno]
NumNode(lineno) == [type |-> "Num", s |-> "1", lineno |-> lineno]

\* Option values: Python values written with their type
Value(type, text) == [type |-> type, text |-> text]
None == Value("NoneType", "None")

\* UnsupportedOperation(message, node); where records the callee that
\* raised it
Unsupported(where, message, provided, node) ==
    [status |-> "raised", exc |-> "UnsupportedOperation", where |-> where,
     message |-> message, provided |-> provided, node |-> node, value |-> None]

Extracted(v, node) ==
    [status |-> "ok", exc |-> "", where |-> "", message |-> "", provided |-> "",
     node |-> node, value |-> v]

\* GET_VALUE_MAP[str]: the string of a string literal
GetStr(node) ==
    IF node.type = "Str" THEN Extracted(Value("str", node.s), node)
    ELSE Unsupported("GET_VALUE_MAP[str]", "Value must be a string", node.type, node)

\* GET_VALUE_MAP[bool]: True or False
GetBool(node) ==
    IF node.type = "Name" /\ node.s \in {"True", "False"}
    THEN Extracted(Value("bool", node.s), node)
    ELSE Unsupported("GET_VALUE_MAP[bool]", "Value must be a boolean", node.s, node)

\* GET_VALUE_MAP[dict]: the dict of a dict literal
GetDict(node) ==
    IF node.type = "Dict" THEN Extracted(Value("dict", node.s), node)
    ELSE Unsupported("GET_VALUE_MAP[dict]", "Value must be a dict", node.type, node)

\* A status check that accepts success only.
StatusAllowed_SuccessOnly(value) == value \in {"success"}

\* resource_decorators.py:21  value in {"success", "failure"}
StatusAllowed(value) == value \in {"success", "failure"}

\* resource_decorators.py:9-25
get_subscribe_status(node) ==
    LET value == GetStr(node)
    IN IF value.status = "raised" THEN value
       ELSE IF ~ StatusAllowed(value.value.text)
       THEN Unsupported("get_subscribe_status",
                        "Status must be one of success|failure. Provided: ",
                        value.value.text, node)
       ELSE value

\* RESOURCE_DECORATOR_MAP: the decorators,
DecoratorNames == {"export", "schedule", "subscribe"}

\* whether a decorator has a max_count,
HasMaxCount(name) == name \in {"export", "schedule"}

\* a registry that lets export be applied twice,
max_count_ExportTwice(name) == IF name = "export" THEN 2 ELSE 1

\* its max_count,
max_count(name) == 1

\* its options,
Options(name) ==
    CASE name = "export" -> {"enabled"}
      [] name = "schedule" -> {"expression", "input_data"}
      [] name = "subscribe" ->
           {"topic_arn_import_value", "project", "state_machine", "status"}

\* the value_type of an option,
value_type(name, opt) ==
    CASE opt = "enabled" -> "Name"
      [] opt = "input_data" -> "Dict"
      [] OTHER -> "Str"

\* its get_value,
get_value(name, opt, node) ==
    CASE opt = "enabled" -> GetBool(node)
      [] opt = "input_data" -> GetDict(node)
      [] opt = "status" -> get_subscribe_status(node)
      [] OTHER -> GetStr(node)

\* and its default_value (None where CallableOption gets none).
default_value(name, opt) ==
    CASE opt = "enabled" -> Value("bool", "True")
      [] opt = "state_machine" -> Value("str", "main")
      [] opt = "status" -> Value("str", "success")
      [] OTHER -> None

\* --------------------------------------------------- decorator validator
\* A decorator application: name(opt=node), with at most one keyword here
Apply(name, kw) == [name |-> name, keywords |-> kw]
Keyword(opt, node) == [arg |-> opt, value |-> node]

Applied(name) ==
    Cardinality({i \in 1..Len(effects) : effects[i].decorator_name = name})

\* Steps 1-4 of the validation of one application: the first failure, or "".
Rejection(d) ==
    IF d.name \notin DecoratorNames THEN "unknown decorator"
    ELSE IF HasMaxCount(d.name) /\ Applied(d.name) >= max_count(d.name)
    THEN "max_count"
    ELSE IF \E i \in 1..Len(d.keywords) : d.keywords[i].arg \notin Options(d.name)
    THEN "unknown option"
    ELSE IF \E i \in 1..Len(d.keywords) :
              d.keywords[i].value.type # value_type(d.name, d.keywords[i].arg)
    THEN "value type"
    ELSE IF \E i \in 1..Len(d.keywords) :
              get_value(d.name, d.keywords[i].arg, d.keywords[i].value).status = "raised"
    THEN "get_value"
    ELSE ""

\* Steps 5-6: the values of the effect, defaults for what was not supplied
Values(d) ==
    [opt \in Options(d.name) |->
        IF \E i \in 1..Len(d.keywords) : d.keywords[i].arg = opt
        THEN LET i == CHOOSE j \in 1..Len(d.keywords) : d.keywords[j].arg = opt
             IN get_value(d.name, opt, d.keywords[i].value).value
        ELSE default_value(d.name, opt)]

Effect(d) == [decorator_name |-> d.name, values |-> Values(d)]

\* The validator takes the next decorator of the function.
ValidateDecorator ==
    /\ decRaised = "none"
    /\ decIdx < Len(decorators)
    /\ LET d == decorators[decIdx + 1]
       IN IF Rejection(d) # ""
          THEN /\ decRaised' = "UnsupportedOperation"
               /\ effects' = effects
          ELSE /\ decRaised' = decRaised
               /\ effects' = Append(effects, Effect(d))
    /\ decIdx' = decIdx + 1
    /\ UNCHANGED <<decorators, graphVars, statusVars>>

Applications ==
    {Apply("export", <<>>),
     Apply("export", <<Keyword("enabled", NameNode("True", 1))>>),
     Apply("export", <<Keyword("enabled", NameNode("False", 1))>>),
     Apply("export", <<Keyword("enabled", StrNode("yes", 1))>>),
     Apply("export", <<Keyword("retain", NameNode("True", 1))>>),
     Apply("schedule", <<Keyword("expression", StrNode("cron(0 12 * * ? *)", 1))>>),
     Apply("schedule", <<Keyword("input_data", DictNode(1))>>),
     Apply("subscribe", <<>>),
     Apply("subscribe", <<Keyword("project", StrNode("other-project", 1))>>),
     Apply("subscribe", <<Keyword("status", StrNode("success", 1))>>),
     Apply("subscribe", <<Keyword("status", StrNode("failure", 1))>>),
     Apply("subscribe", <<Keyword("status", StrNode("maybe", 1))>>),
     Apply("publish", <<>>)}

NoGraph ==
    /\ state_graph = [nodes |-> {}, adj |-> <<>>]
    /\ ast_node = <<>>
    /\ graph0 = state_graph
    /\ phase = "serialize"
    /\ shaped = {}
    /\ raised = "none"
    /\ result = <<>>

InitDecorators ==
    /\ decorators \in UNION {[1..l -> Applications] : l \in 0..MaxDecorators}
    /\ decIdx = 0
    /\ effects = <<>>
    /\ decRaised = "none"
    /\ NoGraph
    /\ NoStatusCall

NextDecorators == ValidateDecorator

SpecDecorators == InitDecorators /\ [][NextDecorators]_vars

\* ------------------------------------------- get_subscribe_status alone
StatusStrings ==
    {"success", "failure", "maybe", "Success", "FAILURE", "", "succeeded", "main"}

StatusNodes ==
    UNION {{StrNode(s, l) : s \in StatusStrings}
             \cup {NameNode("True", l), NameNode("success", l), DictNode(l), NumNode(l)}
           : l \in 1..MaxLine}

NotCalled ==
    [status |-> "none", exc |-> "", where |-> "", message |-> "", provided |-> "",
     node |-> DictNode(0), value |-> None]

InitStatus ==
    /\ status_node \in StatusNodes
    /\ status_result = NotCalled
    /\ NoGraph
    /\ NoDecorators

GetSubscribeStatus ==
    /\ status_result.status = "none"
    /\ status_result' = get_subscribe_status(status_node)
    /\ UNCHANGED <<status_node, graphVars, decVars>>

NextStatus == GetSubscribeStatus

SpecStatus == InitStatus /\ [][NextStatus]_vars

\* ================================================== properties: shaping
IsNoOp(n) == ast_node[n].kind = "Pass"

\* elidable: a no-op with at least one outgoing edge
Elidable(g, n) == n \in g.nodes /\ IsNoOp(n) /\ edges(g, n) # {}

\* shape() is called on n in this step
ShapeStep(n) == n \in state_graph.nodes /\ n \in shaped' \ shaped

\* the first shaping pass has called shape() on every state, none raised
FirstPassDone == phase = "shape" /\ raised = "none" /\ PassComplete

\* paths of the graph as built: <<A, p1, ..., pk, B>>
Paths(g) ==
    {s \in UNION {[1..l -> g.nodes] : l \in 2..Cardinality(g.nodes)} :
        \A i \in 1..(Len(s) - 1) : HasEdge(g, s[i], s[i + 1])}

\* a chain of k >= 0 elidable no-ops between two retained states
IsChain(s) ==
    /\ ~ Elidable(graph0, s[1])
    /\ ~ Elidable(graph0, s[Len(s)])
    /\ \A i \in 2..(Len(s) - 1) : Elidable(graph0, s[i])

\* C1: elision correctness.  Once shape() has been applied to every state,
\* every chain A -> p1 -> ... -> pk -> B of elidable no-ops of the graph as
\* built has become the edge A -> B carrying the attrs of the chain's first
\* edge, and none of p1..pk is left.
C1_ElisionCorrectness ==
    FirstPassDone =>
        \A s \in Paths(graph0) :
            IsChain(s) =>
                /\ HasEdge(state_graph, s[1], s[Len(s)])
                /\ state_graph.adj[<<s[1], s[Len(s)]>>] = graph0.adj[<<s[1], s[2]>>]
                /\ \A i \in 2..(Len(s) - 1) : s[i] \notin state_graph.nodes

\* C2: terminal preservation.  A no-op without outgoing edges stays in the
\* graph and stays without outgoing edges in every step; shape() on it
\* leaves the graph (so its incoming edges) as it is and raises nothing; and
\* to_dict() on it returns a Pass state with End and without Result and
\* ResultPath.
C2_Step ==
    \A n \in state_graph.nodes :
        (IsNoOp(n) /\ edges(state_graph, n) = {}) =>
            /\ n \in state_graph'.nodes
            /\ edges(state_graph', n) = {}
            /\ ShapeStep(n) =>
                 /\ state_graph' = state_graph
                 /\ in_edges(state_graph', n) = in_edges(state_graph, n)
                 /\ raised' = "none"
            /\ (result[n].status = "none" /\ result'[n].status # "none") =>
                 /\ result'[n].status = "ok"
                 /\ result'[n].value.keys = {"Type", "End"}
                 /\ result'[n].value.Type = "Pass"

C2_TerminalPreservation == [][C2_Step]_vars

\* C2 witness: a no-op without outgoing edges and with an incoming edge was
\* shaped and serialized
C2_Witness ==
    \E n \in state_graph.nodes :
        /\ IsNoOp(n)
        /\ edges(state_graph, n) = {}
        /\ in_edges(state_graph, n) # {}
        /\ n \in shaped
        /\ phase = "serialize"
        /\ result[n].status = "ok"

\* shape() in the ascending order of the states, stopping at a raise
RECURSIVE ShapeFrom(_, _, _, _)
ShapeFrom(g, ast, n, last) ==
    IF n > last THEN [graph |-> g, raised |-> "none"]
    ELSE IF n \notin g.nodes THEN ShapeFrom(g, ast, n + 1, last)
    ELSE LET r == shape(g, ast, n)
         IN IF r.raised # "none" THEN r
            ELSE ShapeFrom(r.graph, ast, n + 1, last)

\* C3: order independence.  Whatever the order of this pass was, its result
\* is the result of the pass in ascending order (when both complete).
C3_OrderIndependence ==
    LET asc == ShapeFrom(graph0, ast_node, 1, WideNodes)
    IN (FirstPassDone /\ asc.raised = "none") => state_graph = asc.graph

\* C4: idempotence.  When the second pass starts no state is elidable, and
\* no step of the second pass changes the graph or raises.
C4_Step ==
    /\ phase' = "reshape" => \A n \in state_graph'.nodes : ~ Elidable(state_graph', n)
    /\ phase = "reshape" => (state_graph' = state_graph /\ raised' = "none")

C4_Idempotence == [][C4_Step]_vars

\* C4 witness: the second pass has shaped every state that is left of a
\* graph the first pass changed
C4_Witness ==
    /\ phase = "reshape"
    /\ PassComplete
    /\ state_graph # graph0
    /\ state_graph.nodes # {}

\* C5: the end-to-end scenario yields exactly the x-state and the y-state.
XState ==
    Dict({"Type", "Result", "ResultPath", "Next"}, PyValue("int", "1"), "$['x']", 4)

YState ==
    Dict({"Type", "Result", "ResultPath", "End"}, PyValue("dict", "{'a': 2}"),
         "$['y']", 0)

IsScenario == graph0 = ScenarioGraph /\ ast_node = ScenarioStmts

C5_Scenario ==
    (IsScenario /\ phase = "serialize") =>
        /\ state_graph.nodes = {2, 4}
        /\ result[2].status # "none" =>
             (result[2].status = "ok" /\ result[2].value = XState)
        /\ result[4].status # "none" =>
             (result[4].status = "ok" /\ result[4].value = YState)

\* C5 witness: both states of the scenario are serialized
C5_Witness ==
    /\ IsScenario
    /\ phase = "serialize"
    /\ result[2].status = "ok"
    /\ result[4].status = "ok"

\* C9: pairwise rewiring.  shape() on an elidable p raises nothing, leaves
\* an edge (m, n) carrying the attrs of (m, p) for every in-edge (m, p) and
\* successor n, and removes p with its edges.  (Carrying is read as: every
\* key of the in-edge's attrs is on the edge with its value.)
C9_Step ==
    \A p \in state_graph.nodes :
        (ShapeStep(p) /\ Elidable(state_graph, p)) =>
            /\ raised' = "none"
            /\ \A e \in in_edges(state_graph, p) :
                 \A n \in Successors(state_graph, p) :
                    /\ HasEdge(state_graph', e[1], n)
                    /\ state_graph.adj[e] \subseteq state_graph'.adj[<<e[1], n>>]
            /\ \A e \in DOMAIN state_graph'.adj : e[1] # p /\ e[2] # p
            /\ p \notin state_graph'.nodes

C9_PairwiseRewiring == [][C9_Step]_vars

\* states reachable from a over edges of g, in one step or more
RECURSIVE ReachSet(_, _, _)
ReachSet(g, frontier, seen) ==
    LET new == {v \in g.nodes : \E u \in frontier : HasEdge(g, u, v)} \ seen
    IN IF new = {} THEN seen ELSE ReachSet(g, new, seen \cup new)

Reachable(g, a, b) == b \in ReachSet(g, {a}, {})

\* the nearest retained states behind x: x itself if retained, else those
\* behind its successors
RECURSIVE Nearest(_, _, _)
Nearest(g, kept, x) ==
    IF x \in kept THEN {x}
    ELSE UNION {Nearest(g, kept, y) : y \in Successors(g, x)}

\* C10: shaping preserves semantics between retained states: the same
\* reachability, every branch condition leaving a retained state still
\* leaves it and leads to a nearest retained state of that branch, and an
\* edge between two retained states keeps its own attrs.
C10_SemanticsPreserved ==
    FirstPassDone =>
        LET kept == state_graph.nodes
        IN /\ \A a, b \in kept :
                Reachable(state_graph, a, b) <=> Reachable(graph0, a, b)
           /\ \A e \in DOMAIN graph0.adj :
                e[1] \in kept =>
                    \A b \in Nearest(graph0, kept, e[2]) :
                        /\ HasEdge(state_graph, e[1], b)
                        /\ e[2] \in kept =>
                             state_graph.adj[<<e[1], b>>] = graph0.adj[e]
           /\ \A e \in DOMAIN graph0.adj :
                e[1] \in kept =>
                    \E b \in Nearest(graph0, kept, e[2]) :
                        /\ HasEdge(state_graph, e[1], b)
                        /\ state_graph.adj[<<e[1], b>>] = graph0.adj[e]

\* ============================================== properties: serialization
\* json.loads of a JSON text
StrictJsonLoads(text) ==
    CASE text = "1" -> PyValue("int", "1")
      [] text = "\"s\"" -> PyValue("str", "s")
      [] text = "{\"a\": 2}" -> PyValue("dict", "{'a': 2}")
      [] text = "{}" -> PyValue("dict", "{}")
      [] text = "[1, 2]" -> PyValue("list", "[1, 2]")
      [] text = "{\"1\": 2}" -> PyValue("dict", "{'1': 2}")
      [] OTHER -> PyValue("ValueError", text)

\* the expression the result is taken from
ResultExpr(stmt) ==
    IF stmt.kind = "Assign" \/ stmt.value.node # "Call" \/ Len(stmt.value.args) = 0
    THEN stmt.value
    ELSE stmt.value.args[1]

NonLiteral(stmt) == ResultExpr(stmt).node # "Literal"

FailsStrictRoundTrip(stmt) ==
    LET value == literal_eval(to_source(ResultExpr(stmt)))
    IN \/ value.type = "ValueError"
       \/ json_dumps(value) = "TypeError"
       \/ StrictJsonLoads(json_dumps(value)) # value

ReservedPath(stmt) ==
    stmt.kind = "Assign" /\ INVALID_RESULT_PATH_PATTERN(convert_input_data_ref(stmt.targets))

\* C8: to_dict() of a state that is not a no-op returns a dict with Type,
\* Result and ResultPath or raises UnsupportedOperation, and raises it
\* whenever the value is not a literal, fails a strict JSON round trip, or
\* the result path is reserved.
C8_SerializationOutcome ==
    \A n \in state_graph.nodes :
        (result[n].status # "none" /\ ~ IsNoOp(n)) =>
            /\ \/ /\ result[n].status = "ok"
                  /\ {"Type", "Result", "ResultPath"} \subseteq result[n].value.keys
               \/ HasRaised(result[n], "UnsupportedOperation")
            /\ (\/ NonLiteral(ast_node[n])
                \/ FailsStrictRoundTrip(ast_node[n])
                \/ ReservedPath(ast_node[n]))
                 => HasRaised(result[n], "UnsupportedOperation")

\* ================================================= properties: decorators
ExportEffects == {i \in 1..Len(effects) : effects[i].decorator_name = "export"}

\* C6: decorator cardinality.  No decorator with a max_count has more
\* effects than that, export never more than one; an application of export
\* that follows an accepted one ends the validation with
\* UnsupportedOperation; and the effect of export() without arguments has
\* enabled = True.  (The validation ends at the first refusal, so effects[i]
\* is the effect of decorators[i].)
C6_DecoratorCardinality ==
    /\ Cardinality(ExportEffects) <= 1
    /\ \A name \in DecoratorNames :
         HasMaxCount(name) => Applied(name) <= max_count(name)
    /\ \A i \in 1..decIdx :
         (decorators[i].name = "export" /\ \E j \in 1..(i - 1) : j \in ExportEffects)
            => (decRaised = "UnsupportedOperation" /\ Len(effects) < i)
    /\ \A i \in 1..Len(effects) :
         decorators[i] = Apply("export", <<>>) =>
            effects[i].values["enabled"] = Value("bool", "True")

\* C6 witness: an export() was accepted and a second application of export
\* was refused
C6_Witness ==
    /\ Len(decorators) = 2
    /\ decorators[1] = Apply("export", <<>>)
    /\ decorators[2].name = "export"
    /\ decIdx = 2
    /\ Len(effects) = 1
    /\ decRaised = "UnsupportedOperation"

\* C7: get_subscribe_status returns "success" and "failure" unchanged,
\* raises UnsupportedOperation naming the allowed set for every other
\* string, and for a node that is not a string raises in the string
\* extractor, before the membership check.
C7_SubscribeStatus ==
    status_result.status # "none" =>
        IF status_node.type # "Str"
        THEN /\ status_result.exc = "UnsupportedOperation"
             /\ status_result.where = "GET_VALUE_MAP[str]"
        ELSE IF status_node.s \in {"success", "failure"}
        THEN /\ status_result.status = "ok"
             /\ status_result.value = Value("str", status_node.s)
        ELSE /\ status_result.exc = "UnsupportedOperation"
             /\ status_result.where = "get_subscribe_status"
             /\ status_result.message = "Status must be one of success|failure. Provided: "
             /\ status_result.provided = status_node.s
             /\ status_result.node = status_node

\* C7 witness: the three outcomes
C7_WitnessRejected ==
    /\ status_node.type = "Str"
    /\ status_node.s = "maybe"
    /\ status_result.status = "raised"

====
